---- MODULE Spec2Model ----
(***************************************************************************)
(* The pipeline orchestrator of the DNA barcode toolkit backend:           *)
(*   routes/analysis.js      the single-slot analysis state and its HTTP   *)
(*                           handlers (start, stop, clear, status)         *)
(*   services/pythonExecutor the stage-driving loop (executePipeline)      *)
(*   services/dockerService  the command runner (runContainer)             *)
(* The repository holds two executors behind the same import of            *)
(* routes/analysis.js: the Docker executor with the eleven-stage table and *)
(* the local-script executor that spawns integrated_pipeline.py itself.    *)
(* Node runs one callback at a time: every action below is one callback    *)
(* (an HTTP handler, a child-process event, the resumption of an awaited   *)
(* operation, a timer) together with the promise reactions it triggers.    *)
(***************************************************************************)
EXTENDS Integers, Sequences, FiniteSets, TLC

\* Bounds of the model.
MaxRuns == 2
MaxStderr == 1
MaxConns == 1
MaxListeners == 2
MaxFanOutRuns == 1
MaxEntries == 1
MaxTrimEntries == 2

VARIABLES
  executor,             \* which pythonExecutor.js is loaded: "docker" | "script"
  currentAnalysis,      \* analysis.js:10  the single slot
  currentPythonProcess, \* analysis.js:11  handle of the in-flight process, 0 = null
  runs,                 \* per accepted start(): the state of its executePipeline call
  procs,                \* per run: the child process it spawned last
  timers,               \* pending setTimeout callbacks
  nextRun,              \* number of the next executePipeline call
  sseConnections,       \* analysis.js:68  currentAnalysis.sseConnections
  conns,                \* per SSE request: the state of its response stream
  closeTimers,          \* pending setTimeout(closeSSEConnections) callbacks
  resp,                 \* what the last callback answered and emitted
  host,                 \* the machine the backend runs on: output directories, Docker
  call                  \* the helper function called last, and what it returned

vars == <<executor, currentAnalysis, currentPythonProcess, runs, procs, timers,
          nextRun, sseConnections, conns, closeTimers, resp, host, call>>

\* The variables of the progress streams.
sse == <<sseConnections, conns, closeTimers>>

\* The variables of the helper functions, which the handlers leave alone.
helper == <<host, call>>

\* The variables of the router and the executor, which a helper leaves alone.
orchestrator == <<executor, currentAnalysis, currentPythonProcess, runs, procs, timers,
                  nextRun, sseConnections, conns, closeTimers, resp>>

RunIds == 1..MaxRuns

ConnIds == 1..MaxListeners

-----------------------------------------------------------------------------
\* Values of a JSON request body.
Undefined == [t |-> "undefined", v |-> 0]

Str(n) == [t |-> "string", v |-> n]

Num(n) == [t |-> "number", v |-> n]

Obj == [t |-> "object", v |-> 0]

\* The empty string "".
EmptyStr == Str(0)

BodyKeys == {"r1File", "r2File", "barcodeFile", "ncbiReferenceFile", "minLength",
             "identity", "copyNumber", "keyword", "qualityConfig"}

EmptyBody == [k \in BodyKeys |-> Undefined]

\* { r1File, r2File, barcodeFile }
BodyThreeFiles ==
  [EmptyBody EXCEPT !["r1File"] = Str(1), !["r2File"] = Str(2), !["barcodeFile"] = Str(3)]

\* The request body of the README example.
BodyReadme ==
  [BodyThreeFiles EXCEPT !["ncbiReferenceFile"] = Str(4), !["minLength"] = Num(200),
                         !["identity"] = Num(98), !["copyNumber"] = Num(2)]

\* The README body with the optional qualityConfig.
BodyReadmeQuality == [BodyReadme EXCEPT !["qualityConfig"] = Obj]

BodyMissingR2 == [BodyThreeFiles EXCEPT !["r2File"] = Undefined]

BodyNumericR1 == [BodyThreeFiles EXCEPT !["r1File"] = Num(7)]

BodyEmptyBarcode == [BodyThreeFiles EXCEPT !["barcodeFile"] = EmptyStr]

\* The request bodies start() is tried with.
Bodies == {BodyThreeFiles, BodyReadme, BodyReadmeQuality, BodyMissingR2, BodyNumericR1,
           BodyEmptyBarcode}

\* Joi.string().required(): present, a string, and not "".
JoiRequiredString(x) == x.t = "string" /\ x # EmptyStr

SchemaKeys == {"r1File", "r2File", "barcodeFile"}

\* pipelineSchema.validate(req.body) reports an error. Joi objects reject keys
\* the schema does not name (allowUnknown is off by default).
pipelineSchemaError(body) ==
  \/ \E k \in SchemaKeys : ~JoiRequiredString(body[k])
  \/ \E k \in BodyKeys \ SchemaKeys : body[k] # Undefined

\* The params object the start handler hands to executePipeline.
HandlerParams(body) ==
  [k \in BodyKeys |-> IF k \in SchemaKeys THEN body[k] ELSE Undefined]

-----------------------------------------------------------------------------
\* The stage table of the Docker executor.
standardPipeline ==
  << [name |-> "trim and rename", script |-> "Step1/rename_trim.py",
       requiredFiles |-> <<"R1", "R2", "barcode", "qualityConfig">>],
     [name |-> "pear", script |-> "Step2/joinPear.py",
       requiredFiles |-> <<>>],
     [name |-> "length filter", script |-> "Step2/lenFilter.py",
       requiredFiles |-> <<"minLength">>],
     [name |-> "blast", script |-> "Step3/joinBlast.py",
       requiredFiles |-> <<"ncbiReference">>],
     [name |-> "assign species", script |-> "Step3/assign_species.py",
       requiredFiles |-> <<"keyword", "identity">>],
     [name |-> "species classifier", script |-> "Step3/speciesClassifier.py",
       requiredFiles |-> <<>>],
     [name |-> "MAFFT", script |-> "Step4/joinMAFFT.py",
       requiredFiles |-> <<>>],
     [name |-> "tab formatter", script |-> "Step4/tabFormatter.py",
       requiredFiles |-> <<>>],
     [name |-> "trim gaps", script |-> "Step4/trim_gaps.py",
       requiredFiles |-> <<>>],
     [name |-> "separate reads", script |-> "Step5/separate_reads.py",
       requiredFiles |-> <<"copyNumber">>],
     [name |-> "generate location-haplotype table", script |-> "Step6/get_loc_hap_table.py",
       requiredFiles |-> <<"barcode">>] >>

\* The local-script executor runs one script with the three files.
scriptPipeline ==
  << [name |-> "integrated_pipeline.py", requiredFiles |-> <<"R1", "R2", "barcode">>] >>

Pipeline == IF executor = "docker" THEN standardPipeline ELSE scriptPipeline

\* The parameter a required input is read from.
ParamOf(requiredFile) ==
  CASE requiredFile = "R1" -> "r1File"
    [] requiredFile = "R2" -> "r2File"
    [] requiredFile = "barcode" -> "barcodeFile"
    [] requiredFile = "ncbiReference" -> "ncbiReferenceFile"
    [] OTHER -> requiredFile

\* executePipeline's destructuring: minLength = 200 and qualityConfig = {} by default.
Destructured(params) ==
  [params EXCEPT !["minLength"] = IF @ = Undefined THEN Num(200) ELSE @,
                 !["qualityConfig"] = IF @ = Undefined THEN Obj ELSE @]

\* path.basename(x) throws a TypeError unless x is a string.
BasenameThrows(x) == x.t # "string"

\* _executeStep throws while it builds the container arguments of `step`.
ArgsThrow(step, params) ==
  \E j \in 1..Len(step.requiredFiles) :
    /\ step.requiredFiles[j] \in {"R1", "R2", "barcode", "ncbiReference"}
    /\ BasenameThrows(Destructured(params)[ParamOf(step.requiredFiles[j])])

-----------------------------------------------------------------------------
\* Error messages, kept structured: which run and stage, the exit code and how
\* many stderr chunks the message carries.
Err(kind, r, stage, code, stderr) ==
  [kind |-> kind, run |-> r, stage |-> stage, code |-> code, stderr |-> stderr]

NoError == Err("none", 0, 0, 0, 0)

\* "Analysis stopped by user"
StoppedByUser == Err("stopped by user", 0, 0, 0, 0)

NoResult == [run |-> 0]

NoAnalysis ==
  [run |-> 0, status |-> "none", endTime |-> FALSE, error |-> NoError, result |-> NoResult]

NoProcess == 0

NoProc ==
  [state |-> "none", stage |-> 0, errorOutput |-> 0, killed |-> FALSE,
   term |-> FALSE, kill |-> FALSE]

NoRun == [pc |-> "unused", i |-> 0, params |-> EmptyBody, stepResults |-> <<>>,
          outcome |-> "pending"]

\* A call of executePipeline that has returned or thrown: its frame is gone.
SettledRun(outcome) == [NoRun EXCEPT !.pc = "settled", !.outcome = outcome]

\* A child process after its last event.
GoneProc(state) == [NoProc EXCEPT !.state = state]

\* What a callback answers (op, code) and does: the signals it sends, the
\* events it publishes in order, the connections each of them is written to.
Resp(op, code) ==
  [op |-> op, code |-> code, signals |-> {}, events |-> <<>>, delivered |-> {},
   stepResults |-> <<>>]

\* A progress event.
Ev(type) ==
  [type |-> type, stage |-> 0, status |-> "none", error |-> NoError, result |-> NoResult]

\* The machine before anything has run on it, and no helper call made.
NoHost == [outputs |-> <<>>, docker |-> <<>>]

NoCall == [fn |-> "none"]

\* The router module after its import: no analysis, no process, no timer.
Idle ==
  /\ currentAnalysis = NoAnalysis
  /\ currentPythonProcess = NoProcess
  /\ runs = [r \in RunIds |-> NoRun]
  /\ procs = [r \in RunIds |-> NoProc]
  /\ timers = {}
  /\ nextRun = 1
  /\ sseConnections = {}
  /\ conns = [c \in ConnIds |-> "unused"]
  /\ closeTimers = 0
  /\ resp = Resp("init", 0)

Init ==
  /\ executor \in {"docker", "script"}
  /\ Idle
  /\ host = NoHost
  /\ call = NoCall

-----------------------------------------------------------------------------
\* Mutant of AlreadyRunning: the running check is lost.
AlreadyRunning_Never == FALSE

\* analysis.js:24  if (currentAnalysis && currentAnalysis.status === "running")
AlreadyRunning == currentAnalysis.status = "running"

\* Mutant of NoRunningAnalysis: only the null test is kept.
NoRunningAnalysis_NullOnly == currentAnalysis.status = "none"

\* analysis.js:123  if (!currentAnalysis || currentAnalysis.status !== "running")
NoRunningAnalysis == currentAnalysis.status # "running"

\* analysis.js:64-69  the slot a start() stores
RunningAnalysis(r) ==
  [run |-> r, status |-> "running", endTime |-> FALSE, error |-> NoError,
   result |-> NoResult]

\* Mutant of StoppedAnalysis: the status is left for the exit of the process.
StoppedAnalysis_Deferred ==
  [currentAnalysis EXCEPT !.endTime = TRUE, !.error = StoppedByUser]

\* analysis.js:145-147  what stop() writes into the slot
StoppedAnalysis ==
  [currentAnalysis EXCEPT !.status = "stopped", !.endTime = TRUE, !.error = StoppedByUser]

\* analysis.js:75-78  what the .then reaction writes into the slot, if there is one
CompletedAnalysis(result) ==
  IF currentAnalysis.status = "none" THEN currentAnalysis
  ELSE [currentAnalysis EXCEPT !.status = "completed", !.endTime = TRUE, !.result = result]

\* analysis.js:94-97  what the .catch reaction writes into the slot, if there is one
FailedAnalysis(error) ==
  IF currentAnalysis.status = "none" THEN currentAnalysis
  ELSE [currentAnalysis EXCEPT !.status = "error", !.endTime = TRUE, !.error = error]

\* The first awaited operation of executePipeline.
FirstAwait == IF executor = "docker" THEN "checkEnvironment" ELSE "clearOutputDirectories"

\* The awaited operation that follows the last stage.
AfterLastStage == IF executor = "docker" THEN "removeQualityConfig" ELSE "parsePipelineResults"

\* ChildProcess.kill(signal): delivers the signal to a live process and sets
\* its `killed` flag; on an exited process it does nothing.
Kill(p, signal) ==
  IF p.state # "alive" THEN p
  ELSE IF signal = "SIGKILL" THEN [p EXCEPT !.killed = TRUE, !.kill = TRUE]
  ELSE [p EXCEPT !.killed = TRUE, !.term = TRUE]

\* The exit outcomes of a live process: SIGKILL cannot be ignored, SIGTERM can.
Exits(p) ==
  IF p.kill THEN {[code |-> -1, signal |-> "SIGKILL"]}
  ELSE {[code |-> 0, signal |-> "none"], [code |-> 1, signal |-> "none"]}
       \cup (IF p.term THEN {[code |-> -1, signal |-> "SIGTERM"]} ELSE {})

\* Mutant of CloseError: a process that wrote to stderr is taken to have failed.
CloseError_StderrFatal(r, p, exit) ==
  IF executor = "script" /\ exit.signal # "none"
    THEN Err("terminated", r, p.stage, exit.code, 0)
  ELSE IF exit.code = 0 /\ p.errorOutput = 0 THEN NoError
  ELSE Err("exit", r, p.stage, exit.code, p.errorOutput)

\* Mutant of CloseError: every exit resolves the stage.
CloseError_AlwaysResolves(r, p, exit) == NoError

\* The error a close event rejects the stage with, or NoError when it resolves.
\* dockerService: code === 0 resolves, everything else rejects with errorOutput.
\* _executeScriptWithSSE: a SIGTERM/SIGKILL death rejects without errorOutput.
CloseError(r, p, exit) ==
  IF executor = "script" /\ exit.signal # "none"
    THEN Err("terminated", r, p.stage, exit.code, 0)
  ELSE IF exit.code = 0 THEN NoError
  ELSE Err("exit", r, p.stage, exit.code, p.errorOutput)

-----------------------------------------------------------------------------
\* What a callback that is no HTTP handler leaves in resp.
Callback == Resp("callback", 0)

\* Mutant of WriteThrows: a failed write is not noticed.
WriteThrows_Unnoticed == {}

\* Mutant of Written: the message is written to one connection of the set only.
Written_OnlyOne ==
  LET open == {c \in sseConnections : conns[c] = "open"} IN
  IF currentAnalysis.status = "none" \/ open = {} THEN {} ELSE {CHOOSE c \in open : TRUE}

\* broadcastToSSEClients: the connections of the current analysis the message
\* is written to, and those whose write throws.
Written ==
  IF currentAnalysis.status = "none" THEN {}
  ELSE {c \in sseConnections : conns[c] = "open"}

WriteThrows ==
  IF currentAnalysis.status = "none" THEN {}
  ELSE {c \in sseConnections : conns[c] = "broken"}

\* The callback publishes `events`: each is written to every connection of
\* the set; a connection whose write throws is deleted from the set.
Broadcast(answer, events) ==
  /\ resp' = [answer EXCEPT !.events = events,
                            !.delivered = IF events = <<>> THEN {} ELSE Written]
  /\ sseConnections' = IF events = <<>> THEN sseConnections
                       ELSE sseConnections \ WriteThrows
  /\ UNCHANGED conns

\* Mutant of Ended: the set is cleared but no connection is ended.
Ended_OnlyCleared == conns

\* closeSSEConnections(): every connection of the set is ended, the set cleared.
Ended == [c \in ConnIds |-> IF c \in sseConnections THEN "ended" ELSE conns[c]]

\* setTimeout(closeSSEConnections) inside `if (currentAnalysis)`.
CloseLater == IF currentAnalysis.status = "none" THEN closeTimers ELSE closeTimers + 1

\* The event the .then/.catch reaction publishes, if there is an analysis.
Reaction(event) == IF currentAnalysis.status = "none" THEN <<>> ELSE <<event>>

\* Mutant of StepResult: every entry carries the name of the first stage.
StepResult_FirstName(i) == [stepName |-> Pipeline[1].name, status |-> "completed"]

\* pythonExecutor.js:410-414  what _executeStep returns for stage i
StepResult(i) == [stepName |-> Pipeline[i].name, status |-> "completed"]

\* The promise of run r rejects with `error`: executePipeline's catch block
\* publishes the error and rethrows, and the .catch reaction of the start
\* handler runs. `results` is the stepResults the call leaves behind, `before`
\* the events the callback has published so far.
Rejected(r, error, results, before) ==
  /\ runs' = [runs EXCEPT ![r] = SettledRun("rejected")]
  /\ currentPythonProcess' = NoProcess
  /\ currentAnalysis' = FailedAnalysis(error)
  /\ Broadcast([Callback EXCEPT !.stepResults = results],
               before \o <<[Ev("error") EXCEPT !.error = error]>>
                      \o Reaction([Ev("error") EXCEPT !.error = error]))
  /\ closeTimers' = CloseLater
  /\ UNCHANGED timers

\* The promise of run r resolves: executePipeline publishes the completion and
\* returns, and the .then reaction of the start handler runs.
Resolved(r) ==
  /\ runs' = [runs EXCEPT ![r] = SettledRun("resolved")]
  /\ currentPythonProcess' = NoProcess
  /\ currentAnalysis' = CompletedAnalysis([run |-> r])
  /\ Broadcast([Callback EXCEPT !.stepResults = runs[r].stepResults],
               <<[Ev("complete") EXCEPT !.result = [run |-> r]]>>
                 \o Reaction([Ev("complete") EXCEPT !.result = [run |-> r]]))
  /\ closeTimers' = CloseLater
  /\ UNCHANGED timers

\* Stage i of run r starts: step_start (the script executor announces the
\* script), the container arguments, then the spawn. `handle` is the process
\* handle as the calling callback left it, `before` the events it published.
StartStep(r, i, results, handle, before) ==
  LET events == before \o <<[Ev(IF executor = "docker" THEN "step_start" ELSE "progress")
                               EXCEPT !.stage = i]>>
  IN
  IF ArgsThrow(Pipeline[i], runs[r].params)
    THEN /\ Rejected(r, Err("TypeError", r, i, 0, 0), results, events)
         /\ procs' = [procs EXCEPT ![r] = IF @.state = "none" THEN @ ELSE GoneProc("exited")]
    ELSE /\ runs' = [runs EXCEPT ![r].pc = "process", ![r].i = i,
                                 ![r].stepResults = results]
         /\ procs' = [procs EXCEPT ![r] = [NoProc EXCEPT !.state = "alive", !.stage = i]]
         /\ currentPythonProcess' = IF executor = "script" THEN r ELSE handle
         /\ Broadcast(Callback, events)
         /\ UNCHANGED <<currentAnalysis, timers, closeTimers>>

-----------------------------------------------------------------------------
\* POST /pipeline/start
PipelineStart(body) ==
  IF AlreadyRunning
    THEN /\ resp' = Resp("start", 409)
         /\ UNCHANGED <<executor, helper, currentAnalysis, currentPythonProcess, runs, procs,
                        timers, nextRun, sse>>
  ELSE IF pipelineSchemaError(body)
    THEN /\ resp' = Resp("start", 400)
         /\ UNCHANGED <<executor, helper, currentAnalysis, currentPythonProcess, runs, procs,
                        timers, nextRun, sse>>
  ELSE /\ nextRun <= MaxRuns
       /\ runs' = [runs EXCEPT ![nextRun] =
                     [NoRun EXCEPT !.pc = FirstAwait, !.params = HandlerParams(body)]]
       /\ currentAnalysis' = RunningAnalysis(nextRun)
       /\ sseConnections' = {}
       /\ nextRun' = nextRun + 1
       /\ resp' = Resp("start", 200)
       /\ UNCHANGED <<executor, helper, currentPythonProcess, procs, timers, conns, closeTimers>>

\* POST /pipeline/stop
PipelineStop ==
  IF NoRunningAnalysis
    THEN /\ resp' = Resp("stop", 400)
         /\ UNCHANGED <<executor, helper, currentAnalysis, currentPythonProcess, runs, procs,
                        timers, nextRun, sse>>
  ELSE /\ IF currentPythonProcess # NoProcess
            THEN /\ procs' = [procs EXCEPT ![currentPythonProcess] = Kill(@, "SIGTERM")]
                 /\ timers' = timers \cup
                      {[kind |-> "forceKill", by |-> currentAnalysis.run]}
            ELSE UNCHANGED <<procs, timers>>
       /\ currentAnalysis' = StoppedAnalysis
       /\ Broadcast([Resp("stop", 200) EXCEPT
                       !.signals = IF currentPythonProcess # NoProcess
                                     /\ procs[currentPythonProcess].state = "alive"
                                   THEN {<<currentPythonProcess, "SIGTERM">>} ELSE {}],
                    <<[Ev("error") EXCEPT !.error = StoppedByUser]>>)
       /\ closeTimers' = closeTimers + 1
       /\ UNCHANGED <<executor, helper, currentPythonProcess, runs, nextRun>>

\* The 3000 ms timer of stop(): SIGKILL unless the handle is gone or `killed`.
ForceKillTimer(t) ==
  /\ t \in timers
  /\ t.kind = "forceKill"
  /\ timers' = timers \ {t}
  /\ IF currentPythonProcess # NoProcess /\ ~procs[currentPythonProcess].killed
       THEN /\ procs' = [procs EXCEPT ![currentPythonProcess] = Kill(@, "SIGKILL")]
            /\ resp' = [Resp("forceKill", 0) EXCEPT
                          !.signals = IF procs[currentPythonProcess].state = "alive"
                                      THEN {<<currentPythonProcess, "SIGKILL">>} ELSE {}]
       ELSE /\ resp' = Resp("forceKill", 0)
            /\ UNCHANGED procs
  /\ UNCHANGED <<executor, helper, currentAnalysis, currentPythonProcess, runs, nextRun, sse>>

\* DELETE /clear
Clear ==
  /\ currentAnalysis' = NoAnalysis
  /\ IF currentAnalysis.status = "none"
       THEN UNCHANGED <<sseConnections, conns>>
       ELSE conns' = Ended /\ sseConnections' = {}
  /\ resp' = Resp("clear", 200)
  /\ UNCHANGED <<executor, helper, currentPythonProcess, runs, procs, timers, nextRun, closeTimers>>

\* A timer armed by stop() (1 s) or by the settlement (5 s) fires:
\* closeSSEConnections().
CloseTimer ==
  /\ closeTimers > 0
  /\ closeTimers' = closeTimers - 1
  /\ IF currentAnalysis.status = "none"
       THEN UNCHANGED <<sseConnections, conns>>
       ELSE conns' = Ended /\ sseConnections' = {}
  /\ resp' = Resp("closeSSE", 0)
  /\ UNCHANGED <<executor, helper, currentAnalysis, currentPythonProcess, runs, procs, timers,
                 nextRun>>

-----------------------------------------------------------------------------
\* An awaited operation of run r that is no stage process resolves (ok) or
\* rejects, and executePipeline runs on to its next await.
AwaitResumed(r, ok) ==
  LET pc == runs[r].pc IN
  /\ pc \in {"checkEnvironment", "clearOutputDirectories", "createQualityConfigFile",
             "ensureRenameDir", "ensureTrimDir", "removeQualityConfig",
             "parsePipelineResults"}
  /\ UNCHANGED <<executor, helper, nextRun>>
  /\ CASE pc = "parsePipelineResults" ->
            \* _parsePipelineResults catches its own errors
            /\ Resolved(r)
            /\ UNCHANGED procs
       [] pc = "removeQualityConfig" ->
            \* a failed cleanup is only logged
            /\ runs' = [runs EXCEPT ![r].pc = "parsePipelineResults"]
            /\ resp' = Callback
            /\ UNCHANGED <<currentAnalysis, currentPythonProcess, procs, timers, sse>>
       [] pc \notin {"parsePipelineResults", "removeQualityConfig"} /\ ~ok ->
            /\ Rejected(r, Err(pc, r, 0, 0, 0), runs[r].stepResults, <<>>)
            /\ UNCHANGED procs
       [] pc \in {"createQualityConfigFile", "ensureTrimDir"} /\ ok ->
            StartStep(r, 1, <<>>, currentPythonProcess, <<Ev("start")>>)
       [] OTHER ->
            /\ runs' = [runs EXCEPT ![r].pc =
                          CASE pc = "checkEnvironment" -> "clearOutputDirectories"
                            [] pc = "clearOutputDirectories" /\ executor = "docker" ->
                                 "createQualityConfigFile"
                            [] pc = "clearOutputDirectories" /\ executor = "script" ->
                                 "ensureRenameDir"
                            [] OTHER -> "ensureTrimDir"]
            /\ resp' = Callback
            /\ UNCHANGED <<currentAnalysis, currentPythonProcess, procs, timers, sse>>

\* A stdout chunk (one line) of the process of run r: forwarded as progress.
Stdout(r) ==
  /\ runs[r].pc = "process"
  /\ procs[r].state = "alive"
  /\ Broadcast(Callback, <<[Ev("progress") EXCEPT !.stage = procs[r].stage]>>)
  /\ UNCHANGED <<executor, helper, currentAnalysis, currentPythonProcess, runs, procs, timers,
                 nextRun, closeTimers>>

\* A stderr chunk of the process of run r: appended to errorOutput, forwarded
\* as an error-typed progress event.
Stderr(r) ==
  /\ runs[r].pc = "process"
  /\ procs[r].state = "alive"
  /\ procs[r].errorOutput < MaxStderr
  /\ procs' = [procs EXCEPT ![r].errorOutput = @ + 1]
  /\ Broadcast(Callback, <<[Ev("error") EXCEPT !.stage = procs[r].stage]>>)
  /\ UNCHANGED <<executor, helper, currentAnalysis, currentPythonProcess, runs, timers, nextRun,
                 closeTimers>>

\* The events a child-process handler publishes itself before it rejects:
\* _executeScriptWithSSE announces the failure, runContainer only rejects.
Announced(error) ==
  IF executor = "script" THEN <<[Ev("error") EXCEPT !.error = error]>> ELSE <<>>

\* The process of run r could not be spawned: the child's "error" event.
ProcessError(r) ==
  /\ runs[r].pc = "process"
  /\ procs[r].state = "alive"
  /\ procs[r].errorOutput = 0 /\ ~procs[r].killed
  /\ procs' = [procs EXCEPT ![r] = GoneProc("failed")]
  /\ Rejected(r, Err("spawn", r, procs[r].stage, 0, 0), runs[r].stepResults,
              Announced(Err("spawn", r, procs[r].stage, 0, 0)))
  /\ UNCHANGED <<executor, helper, nextRun>>

\* The process of run r exits: the child's "close" event.
ProcessClose(r, exit) ==
  LET p == procs[r]
      error == CloseError(r, p, exit)
      results == Append(runs[r].stepResults, StepResult(p.stage))
  IN
  /\ runs[r].pc = "process"
  /\ p.state = "alive"
  /\ exit \in Exits(p)
  /\ UNCHANGED <<executor, helper, nextRun>>
  /\ IF error # NoError
       THEN /\ procs' = [procs EXCEPT ![r] = GoneProc("exited")]
            /\ Rejected(r, error, runs[r].stepResults, Announced(error))
     ELSE IF executor = "script"
       THEN \* resolve; executePipeline awaits _parsePipelineResults
            /\ procs' = [procs EXCEPT ![r] = GoneProc("exited")]
            /\ runs' = [runs EXCEPT ![r].pc = AfterLastStage]
            /\ Broadcast(Callback, <<[Ev("progress") EXCEPT !.stage = p.stage]>>)
            /\ UNCHANGED <<currentAnalysis, currentPythonProcess, timers, closeTimers>>
     ELSE IF p.stage < Len(Pipeline)
       THEN \* onExit clears the handle; step_complete; the next stage starts
            StartStep(r, p.stage + 1, results, NoProcess,
                      <<[Ev("step_complete") EXCEPT !.stage = p.stage]>>)
     ELSE /\ procs' = [procs EXCEPT ![r] = GoneProc("exited")]
          /\ runs' = [runs EXCEPT ![r].pc = AfterLastStage, ![r].stepResults = results]
          /\ currentPythonProcess' = NoProcess
          /\ Broadcast(Callback, <<[Ev("step_complete") EXCEPT !.stage = p.stage]>>)
          /\ UNCHANGED <<currentAnalysis, timers, closeTimers>>

Next ==
  \/ \E body \in Bodies : PipelineStart(body)
  \/ PipelineStop
  \/ Clear
  \/ CloseTimer
  \/ \E t \in timers : ForceKillTimer(t)
  \/ \E r \in RunIds, ok \in BOOLEAN : AwaitResumed(r, ok)
  \/ \E r \in RunIds : Stdout(r)
  \/ \E r \in RunIds : Stderr(r)
  \/ \E r \in RunIds : ProcessError(r)
  \/ \E r \in RunIds, exit \in [code : {-1, 0, 1}, signal : {"none", "SIGTERM", "SIGKILL"}] :
       ProcessClose(r, exit)

Spec == Init /\ [][Next]_vars

\* Every awaited operation of executePipeline settles and every stage process
\* exits or fails to spawn.
SpecLive ==
  /\ Spec
  /\ \A r \in RunIds :
       /\ WF_vars(\E ok \in BOOLEAN : AwaitResumed(r, ok))
       /\ WF_vars(ProcessError(r) \/
                  \E exit \in [code : {-1, 0, 1}, signal : {"none", "SIGTERM", "SIGKILL"}] :
                    ProcessClose(r, exit))

-----------------------------------------------------------------------------
\* The progress streams (server-sent events).

\* Mutant of Backfill: only the initial status is written.
Backfill_StatusOnly == <<[Ev("start") EXCEPT !.status = currentAnalysis.status]>>

\* Mutant of Backfill: the outcome is written before the initial status.
Backfill_OutcomeFirst ==
  (IF currentAnalysis.status = "completed"
     THEN <<[Ev("complete") EXCEPT !.result = currentAnalysis.result]>>
   ELSE IF currentAnalysis.status = "error"
     THEN <<[Ev("error") EXCEPT !.error = currentAnalysis.error]>>
   ELSE <<>>)
  \o <<[Ev("start") EXCEPT !.status = currentAnalysis.status]>>

\* What the progress handler writes to a new connection: the initial status,
\* then the outcome if the analysis is already completed or failed.
Backfill ==
  <<[Ev("start") EXCEPT !.status = currentAnalysis.status]>> \o
  (IF currentAnalysis.status = "completed"
     THEN <<[Ev("complete") EXCEPT !.result = currentAnalysis.result]>>
   ELSE IF currentAnalysis.status = "error"
     THEN <<[Ev("error") EXCEPT !.error = currentAnalysis.error]>>
   ELSE <<>>)

\* GET /pipeline/progress on a new connection c.
PipelineProgress(c) ==
  /\ conns[c] = "unused"
  /\ \A d \in ConnIds : d < c => conns[d] # "unused"
  /\ IF currentAnalysis.status = "none"
       THEN /\ resp' = Resp("progress", 404)
            /\ UNCHANGED <<timers, sse>>
       ELSE /\ conns' = [conns EXCEPT ![c] = "open"]
            /\ sseConnections' = sseConnections \cup {c}
            /\ timers' = IF currentAnalysis.status \in {"completed", "error"}
                         THEN timers \cup {[kind |-> "lateClose", by |-> c]}
                         ELSE timers
            /\ resp' = [Resp("progress", 200) EXCEPT !.events = Backfill,
                                                     !.delivered = {c}]
            /\ UNCHANGED closeTimers
  /\ UNCHANGED <<executor, helper, currentAnalysis, currentPythonProcess, runs, procs, nextRun>>

\* The 1000 ms timer of a connection opened on a completed or failed analysis:
\* currentAnalysis.sseConnections.delete(res); res.end(). Without an analysis
\* the first statement throws a TypeError nothing catches: the server process
\* exits, and every open stream goes down with it.
LateCloseTimer(t) ==
  /\ t \in timers
  /\ t.kind = "lateClose"
  /\ timers' = timers \ {t}
  /\ IF currentAnalysis.status = "none"
       THEN /\ resp' = Resp("uncaughtException", 0)
            /\ conns' = [c \in ConnIds |->
                           IF conns[c] \in {"open", "broken"} THEN "closed" ELSE conns[c]]
            /\ UNCHANGED sseConnections
       ELSE /\ resp' = Resp("lateClose", 0)
            /\ conns' = [conns EXCEPT ![t.by] = "ended"]
            /\ sseConnections' = sseConnections \ {t.by}
  /\ UNCHANGED <<executor, helper, currentAnalysis, currentPythonProcess, runs, procs, nextRun,
                 closeTimers>>

\* The transport of connection c fails: from now on a write to it throws.
TransportFails(c) ==
  /\ conns[c] = "open"
  /\ conns' = [conns EXCEPT ![c] = "broken"]
  /\ resp' = Callback
  /\ UNCHANGED <<executor, helper, currentAnalysis, currentPythonProcess, runs, procs, timers,
                 nextRun, sseConnections, closeTimers>>

\* The client of connection c goes away: req.on("close").
ClientClose(c) ==
  /\ conns[c] \in {"open", "broken"}
  /\ conns' = [conns EXCEPT ![c] = "closed"]
  /\ sseConnections' = IF currentAnalysis.status = "none" THEN sseConnections
                       ELSE sseConnections \ {c}
  /\ resp' = Resp("disconnect", 0)
  /\ UNCHANGED <<executor, helper, currentAnalysis, currentPythonProcess, runs, procs, timers,
                 nextRun, closeTimers>>

\* The server process is gone.
Crashed == resp.op = "uncaughtException"

\* The orchestrator with clients of the progress stream, on the local-script
\* executor: MaxRuns runs and MaxConns connections.
InitSSE == Init /\ executor = "script"

NextSSE ==
  \/ ~Crashed /\ Next
  \/ \E c \in 1..MaxConns : ~Crashed /\ PipelineProgress(c)
  \/ \E t \in timers : ~Crashed /\ LateCloseTimer(t)
  \/ \E c \in 1..MaxConns : ~Crashed /\ TransportFails(c)
  \/ \E c \in 1..MaxConns : ~Crashed /\ ClientClose(c)

SpecSSE == InitSSE /\ [][NextSSE]_vars

\* The event loop runs what is pending as long as the server process lives:
\* timers fire, awaited operations settle, stage processes exit.
SpecSSELive ==
  /\ SpecSSE
  /\ WF_vars(~Crashed /\ CloseTimer)
  /\ WF_vars(\E t \in timers : ~Crashed /\ (LateCloseTimer(t) \/ ForceKillTimer(t)))
  /\ \A r \in RunIds :
       /\ WF_vars(\E ok \in BOOLEAN : ~Crashed /\ AwaitResumed(r, ok))
       /\ WF_vars(~Crashed /\
                  (ProcessError(r) \/
                   \E exit \in [code : {-1, 0, 1}, signal : {"none", "SIGTERM", "SIGKILL"}] :
                     ProcessClose(r, exit)))

\* The same with MaxListeners connections and MaxFanOutRuns runs.
NextFanOut ==
  \/ \E body \in Bodies : ~Crashed /\ nextRun <= MaxFanOutRuns /\ PipelineStart(body)
  \/ ~Crashed /\ PipelineStop
  \/ ~Crashed /\ Clear
  \/ ~Crashed /\ CloseTimer
  \/ \E t \in timers : ~Crashed /\ ForceKillTimer(t)
  \/ \E r \in RunIds, ok \in BOOLEAN : ~Crashed /\ AwaitResumed(r, ok)
  \/ \E r \in RunIds : ~Crashed /\ Stdout(r)
  \/ \E r \in RunIds : ~Crashed /\ Stderr(r)
  \/ \E r \in RunIds : ~Crashed /\ ProcessError(r)
  \/ \E r \in RunIds, exit \in [code : {-1, 0, 1}, signal : {"none", "SIGTERM", "SIGKILL"}] :
       ~Crashed /\ ProcessClose(r, exit)
  \/ \E c \in ConnIds : ~Crashed /\ PipelineProgress(c)
  \/ \E t \in timers : ~Crashed /\ LateCloseTimer(t)
  \/ \E c \in ConnIds : ~Crashed /\ TransportFails(c)
  \/ \E c \in ConnIds : ~Crashed /\ ClientClose(c)

SpecFanOut == InitSSE /\ [][NextFanOut]_vars

-----------------------------------------------------------------------------
\* The collation of the results (PythonExecutor._parsePipelineResults).
\* A file name is the sequence of its characters.

\* The characters \w matches, among those the names below are written with.
WordChars == {"a", "b", "f", "q", "r", "s", "t", "x", "1", "2"}

\* /^(\w+)\.(f|r)\.fq$/ matches `name`.
TrimMatch(name) ==
  LET n == Len(name) IN
  /\ n >= 6
  /\ SubSeq(name, n - 4, n) \in {<<".", "f", ".", "f", "q">>, <<".", "r", ".", "f", "q">>}
  /\ \A k \in 1..(n - 5) : name[k] \in WordChars

\* The groups of a match: species and direction.
TrimSpecies(name) == SubSeq(name, 1, Len(name) - 5)

TrimDirection(name) == name[Len(name) - 3]

\* The directories the collation reads, in the order it reads them.
OutputDirs == <<"rename", "trim", "pear", "filter", "filter_del">>

DirNames == {OutputDirs[i] : i \in 1..Len(OutputDirs)}

\* What a path of the outputs directory can be: nothing, a directory with its
\* listing, or something that is no directory.
Absent == [kind |-> "absent", files |-> <<>>]

Directory(files) == [kind |-> "dir", files |-> files]

NotADirectory == [kind |-> "file", files |-> <<>>]

\* The listings of at most n entries with the names of `names`, none twice.
Listings(names, n) ==
  {l \in UNION {[1..k -> names] : k \in 0..n} : \A i, j \in 1..Len(l) : l[i] = l[j] => i = j}

\* The names of the files a stage may leave in the trim directory.
TrimNames ==
  { <<"a", ".", "f", ".", "f", "q">>, <<"a", ".", "r", ".", "f", "q">>,
    <<"b", ".", "x", ".", "f", "q">>, <<".", "f", ".", "f", "q">> }

\* The names of the files a stage may leave in another directory.
OtherNames == { <<"s", "1", ".", "f", "q">>, <<"s", "2", ".", "t", "x", "t">> }

\* The states of the outputs directory the collation is tried on.
OutputStates ==
  LET trims == {Absent, NotADirectory}
                 \cup {Directory(l) : l \in Listings(TrimNames, MaxTrimEntries)}
      others == {Absent, NotADirectory}
                  \cup {Directory(l) : l \in Listings(OtherNames, MaxEntries)}
  IN {[d \in DirNames |-> IF d = "trim" THEN t ELSE o[d]] :
        t \in trims, o \in [DirNames \ {"trim"} -> others]}

\* fs.pathExists(dir)
PathExists(entry) == entry.kind # "absent"

\* fs.readdir(dir) throws unless dir is a directory.
ReaddirThrows(entry) == entry.kind # "dir"

\* pythonExecutor.js:423-443  the results object before anything is read
EmptyResults ==
  [rename |-> [files |-> <<>>, totalFiles |-> 0],
   trim |-> [species |-> {}, totalFiles |-> 0, files |-> <<>>],
   pear |-> [files |-> <<>>, totalFiles |-> 0],
   filter |-> [files |-> <<>>, totalFiles |-> 0, deletedFiles |-> <<>>, deletedCount |-> 0]]

\* Mutant of Recovered: the catch block rethrows.
Recovered_Rethrown == [threw |-> TRUE, results |-> EmptyResults]

\* pythonExecutor.js:504-512  the catch block logs and returns empty results
Recovered == [threw |-> FALSE, results |-> EmptyResults]

\* The listing the collation reads for directory d: empty when d does not exist.
Read(outputs, d) == IF PathExists(outputs[d]) THEN outputs[d].files ELSE <<>>

\* results.trim.species: for each matching file, species[species][direction]
\* is set; the file's path and size are left out.
SpeciesOf(files) ==
  {[species |-> TrimSpecies(files[i]), direction |-> TrimDirection(files[i]),
    filename |-> files[i]] : i \in {j \in 1..Len(files) : TrimMatch(files[j])}}

\* What _parsePipelineResults returns on `outputs`.
ParsedResults(outputs) ==
  IF \E d \in DirNames : PathExists(outputs[d]) /\ ReaddirThrows(outputs[d])
    THEN Recovered
  ELSE [threw |-> FALSE,
        results |->
          [rename |-> [files |-> Read(outputs, "rename"),
                       totalFiles |-> Len(Read(outputs, "rename"))],
           trim |-> [species |-> SpeciesOf(Read(outputs, "trim")),
                     totalFiles |-> Len(Read(outputs, "trim")),
                     files |-> Read(outputs, "trim")],
           pear |-> [files |-> Read(outputs, "pear"),
                     totalFiles |-> Len(Read(outputs, "pear"))],
           filter |-> [files |-> Read(outputs, "filter"),
                       totalFiles |-> Len(Read(outputs, "filter")),
                       deletedFiles |-> Read(outputs, "filter_del"),
                       deletedCount |-> Len(Read(outputs, "filter_del"))]]]

\* A call of _parsePipelineResults().
ParsePipelineResults ==
  /\ call' = [fn |-> "_parsePipelineResults"] @@ ParsedResults(host.outputs)
  /\ UNCHANGED <<host, orchestrator>>

\* A call of clearOutputDirectories(): every directory removed and recreated.
ClearOutputDirectories ==
  /\ host' = [host EXCEPT !.outputs = [d \in DirNames |-> Directory(<<>>)]]
  /\ call' = [fn |-> "clearOutputDirectories"]
  /\ UNCHANGED orchestrator

InitCollate ==
  /\ executor = "docker"
  /\ Idle
  /\ host \in {[NoHost EXCEPT !.outputs = o] : o \in OutputStates}
  /\ call = NoCall

NextCollate == ParsePipelineResults \/ ClearOutputDirectories

SpecCollate == InitCollate /\ [][NextCollate]_vars

-----------------------------------------------------------------------------
\* The Docker environment (DockerService). The host's Docker is described by
\* four facts: the client is installed, the daemon runs, the image mevp:latest
\* is in the local store, the registry can deliver it. A method call is
\* modelled with the commands it executes, in order, and the Docker it leaves.

DockerStates == [installed : BOOLEAN, running : BOOLEAN, image : BOOLEAN, registry : BOOLEAN]

\* `docker --version` exits 0.
VersionSucceeds(d) == d.installed

\* `docker info` exits 0: it needs the client and the daemon.
InfoSucceeds(d) == d.installed /\ d.running

\* `docker images mevp:latest --format ...` exits 0.
ImagesSucceeds(d) == d.installed /\ d.running

\* `docker pull mevp:latest` exits 0.
PullSucceeds(d) == d.installed /\ d.running /\ d.registry

\* checkDockerAvailable(): true iff the command succeeds, never throws.
checkDockerAvailable(d) == VersionSucceeds(d)

\* Mutant of checkDockerRunning: the daemon is taken to run.
checkDockerRunning_Assumed(d) == TRUE

\* checkDockerRunning(): true iff the command succeeds, never throws.
checkDockerRunning(d) == InfoSucceeds(d)

\* Mutant of checkImageExists: the image is never found.
checkImageExists_Never(d) == FALSE

\* checkImageExists(): the output of `docker images` includes the image name;
\* false when the command fails.
checkImageExists(d) == ImagesSucceeds(d) /\ d.image

\* pullImageIfNeeded(): what it returns, the commands it runs and the host
\* it leaves behind.
pullImageIfNeeded(d) ==
  IF checkImageExists(d)
    THEN [result |-> TRUE, threw |-> FALSE, commands |-> <<"docker images">>, docker |-> d]
  ELSE IF PullSucceeds(d)
    THEN [result |-> TRUE, threw |-> FALSE, commands |-> <<"docker images", "docker pull">>,
          docker |-> [d EXCEPT !.image = TRUE]]
  ELSE [result |-> FALSE, threw |-> FALSE, commands |-> <<"docker images", "docker pull">>,
        docker |-> d]

\* The record checkEnvironment() returns.
Checks(installed, running, image) ==
  [dockerInstalled |-> installed, dockerRunning |-> running, imageAvailable |-> image]

\* checkEnvironment(): the three checks in order, returning at the first that
\* fails.
checkEnvironment(d) ==
  IF ~checkDockerAvailable(d)
    THEN [success |-> FALSE, checks |-> Checks(FALSE, FALSE, FALSE),
          message |-> "Docker is not installed", threw |-> FALSE,
          commands |-> <<"docker --version">>, docker |-> d]
  ELSE IF ~checkDockerRunning(d)
    THEN [success |-> FALSE, checks |-> Checks(TRUE, FALSE, FALSE),
          message |-> "Docker daemon is not running", threw |-> FALSE,
          commands |-> <<"docker --version", "docker info">>, docker |-> d]
  ELSE LET pull == pullImageIfNeeded(d)
           commands == <<"docker --version", "docker info">> \o pull.commands
       IN IF ~pull.result
            THEN [success |-> FALSE, checks |-> Checks(TRUE, TRUE, FALSE),
                  message |-> "Failed to get image mevp:latest", threw |-> FALSE,
                  commands |-> commands, docker |-> pull.docker]
          ELSE [success |-> TRUE, checks |-> Checks(TRUE, TRUE, TRUE),
                message |-> "Docker environment is ready", threw |-> FALSE,
                commands |-> commands, docker |-> pull.docker]

\* A call of dockerService.checkEnvironment().
CheckEnvironment ==
  LET r == checkEnvironment(host.docker) IN
  /\ call' = [fn |-> "checkEnvironment", success |-> r.success, checks |-> r.checks,
              message |-> r.message, threw |-> r.threw, commands |-> r.commands,
              docker |-> r.docker]
  /\ host' = [host EXCEPT !.docker = r.docker]
  /\ UNCHANGED orchestrator

\* A call of dockerService.pullImageIfNeeded().
PullImageIfNeeded ==
  LET r == pullImageIfNeeded(host.docker) IN
  /\ call' = [fn |-> "pullImageIfNeeded", result |-> r.result, threw |-> r.threw,
              commands |-> r.commands, docker |-> r.docker]
  /\ host' = [host EXCEPT !.docker = r.docker]
  /\ UNCHANGED orchestrator

\* Someone else changes the host between two calls: the daemon is started or
\* stopped, the image removed, the registry becomes reachable or unreachable.
HostChanges(fact) ==
  /\ fact \in {"running", "image", "registry"}
  /\ fact = "image" => host.docker.image
  /\ host' = [host EXCEPT !.docker[fact] = ~@]
  /\ UNCHANGED <<call, orchestrator>>

InitDocker ==
  /\ executor = "docker"
  /\ Idle
  /\ host \in {[NoHost EXCEPT !.docker = d] : d \in DockerStates}
  /\ call = NoCall

NextDocker ==
  \/ CheckEnvironment
  \/ PullImageIfNeeded
  \/ \E fact \in {"running", "image", "registry"} : HostChanges(fact)

SpecDocker == InitDocker /\ [][NextDocker]_vars

-----------------------------------------------------------------------------
\* The container arguments of a stage (PythonExecutor._executeStep). A string
\* is the sequence of its parts: single characters, and literals of the code
\* written as one part.

\* File names a request can carry (Joi accepts any non-empty string).
ArgNames == {<<"a">>, <<"d", "/", "a">>, <<"b", "/">>}

\* quality_config_${Date.now()}.json
MaxStamp == 2

\* The params executePipeline hands to _executeStep for a request the start
\* handler accepted: the three files, the name of the quality config file it
\* wrote, minLength = 200 by default, nothing else.
StepParams ==
  {[r1File |-> Str(a), r2File |-> Str(<<"r", "2">>), barcodeFile |-> Str(b),
    qualityConfigFile |-> Str(<<"quality_config_", n, ".json">>),
    minLength |-> Num(200), ncbiReferenceFile |-> Undefined, keyword |-> Undefined,
    identity |-> Undefined, copyNumber |-> Undefined] :
     a \in ArgNames, b \in ArgNames, n \in 1..MaxStamp}

\* number NaN
NaN == [t |-> "NaN", v |-> 0]

RECURSIVE StripSeparators(_)
\* path.basename ignores trailing separators.
StripSeparators(s) ==
  IF s # <<>> /\ s[Len(s)] = "/" THEN StripSeparators(SubSeq(s, 1, Len(s) - 1)) ELSE s

\* path.basename(s) of a string: what follows the last separator.
basename(s) ==
  LET t == StripSeparators(s)
      seps == {k \in 1..Len(t) : t[k] = "/"}
      last == IF seps = {} THEN 0 ELSE CHOOSE k \in seps : \A m \in seps : m <= k
  IN SubSeq(t, last + 1, Len(t))

\* parseInt(x) of an integer is that integer, of undefined NaN.
parseInt(x) == IF x.t = "number" THEN x ELSE NaN

\* keyword ? keyword.toString() : ""
KeywordArg(x) ==
  IF x = Undefined \/ x = Str(<<>>) \/ x = Num(0) \/ x = NaN THEN Str(<<>>)
  ELSE IF x.t = "string" THEN x
  ELSE Str(<<x.v>>)

\* What one pass of the switch pushes for `requiredFile`: a sequence of zero
\* or one argument (the switch has no default case).
Pushed(requiredFile, params) ==
  CASE requiredFile \in {"R1", "R2", "barcode", "ncbiReference"}
         -> <<Str(<<"/app/data/uploads/">> \o basename(params[ParamOf(requiredFile)].v))>>
    [] requiredFile = "qualityConfig"
         -> <<Str(<<"/app/data/uploads/">> \o params.qualityConfigFile.v)>>
    [] requiredFile \in {"minLength", "identity", "copyNumber"}
         -> <<parseInt(params[requiredFile])>>
    [] requiredFile = "keyword" -> <<KeywordArg(params.keyword)>>
    [] OTHER -> <<>>

RECURSIVE PushAll(_, _, _, _)
\* The for loop over step.requiredFiles from entry j on.
PushAll(step, params, j, args) ==
  IF j > Len(step.requiredFiles) THEN [threw |-> FALSE, args |-> args]
  ELSE IF /\ step.requiredFiles[j] \in {"R1", "R2", "barcode", "ncbiReference"}
          /\ BasenameThrows(params[ParamOf(step.requiredFiles[j])])
         THEN [threw |-> TRUE, args |-> <<>>]
  ELSE PushAll(step, params, j + 1, args \o Pushed(step.requiredFiles[j], params))

\* containerArgs as _executeStep hands it to runContainer, or the TypeError.
containerArgs(step, params) ==
  PushAll(step, params, 1, <<Str(<<"/app/data/python_scripts/", step.script>>)>>)

\* A call of _executeStep(step, params) up to the container arguments.
ExecuteStepArgs ==
  /\ call' = [fn |-> "_executeStep",
              calls |-> IF call.fn = "none" THEN 1 ELSE 2,
              result |-> containerArgs(standardPipeline[host.step], host.params)]
  /\ UNCHANGED <<host, orchestrator>>

InitArgs ==
  /\ executor = "docker"
  /\ Idle
  /\ host \in {[outputs |-> <<>>, docker |-> <<>>, step |-> i, params |-> p] :
                 i \in 1..Len(standardPipeline), p \in StepParams}
  /\ call = NoCall

NextArgs == ExecuteStepArgs

SpecArgs == InitArgs /\ [][NextArgs]_vars

-----------------------------------------------------------------------------
\* The stdout handler of a stage process (onStdout of _executeStep, and the
\* "data" listener of _executeScriptWithSSE). A chunk is the sequence of its
\* characters.

MaxChunk == 4

Chars == {"a", " ", "\r", "\n"}

\* What String.prototype.trim removes, among Chars.
WhiteSpace == {" ", "\r", "\n"}

Chunks == UNION {[1..n -> Chars] : n \in 0..MaxChunk}

RECURSIVE split(_)
\* chunk.split(/\r?\n/): the leftmost match ends at the first "\n" and takes
\* a "\r" directly before it; the rest is split the same way.
split(chunk) ==
  LET lfs == {k \in 1..Len(chunk) : chunk[k] = "\n"} IN
  IF lfs = {} THEN <<chunk>>
  ELSE LET k == CHOOSE m \in lfs : \A n \in lfs : m <= n
           end == IF k > 1 /\ chunk[k - 1] = "\r" THEN k - 2 ELSE k - 1
       IN <<SubSeq(chunk, 1, end)>> \o split(SubSeq(chunk, k + 1, Len(chunk)))

\* Mutant of trim: nothing is removed.
trim_Nothing(line) == line

\* line.trim()
trim(line) ==
  LET ink == {k \in 1..Len(line) : line[k] \notin WhiteSpace} IN
  IF ink = {} THEN <<>>
  ELSE SubSeq(line, CHOOSE m \in ink : \A n \in ink : m <= n,
                    CHOOSE m \in ink : \A n \in ink : n <= m)

RECURSIVE forEachLine(_)
\* lines.forEach: a progress event with message line.trim() if that is not "".
forEachLine(lines) ==
  IF lines = <<>> THEN <<>>
  ELSE (IF trim(lines[1]) # <<>> THEN <<[type |-> "progress", message |-> trim(lines[1])]>>
        ELSE <<>>)
       \o forEachLine(Tail(lines))

\* The stdout handler receives host.chunk.
OnStdout ==
  /\ call' = [fn |-> "onStdout", events |-> forEachLine(split(host.chunk))]
  /\ UNCHANGED <<host, orchestrator>>

InitLines ==
  /\ executor \in {"docker", "script"}
  /\ Idle
  /\ host \in {[outputs |-> <<>>, docker |-> <<>>, chunk |-> c] : c \in Chunks}
  /\ call = NoCall

NextLines == OnStdout

SpecLines == InitLines /\ [][NextLines]_vars

-----------------------------------------------------------------------------
\* GET /pipeline/status: a read of the slot.
StatusResponse ==
  IF currentAnalysis.status = "none"
    THEN [code |-> 404, status |-> "none", endTime |-> FALSE, error |-> NoError,
          result |-> NoResult]
    ELSE [code |-> 200, status |-> currentAnalysis.status,
          endTime |-> currentAnalysis.endTime, error |-> currentAnalysis.error,
          result |-> currentAnalysis.result]

\* Mutant of NotCompleted: only a running analysis is refused.
NotCompleted_RunningOnly == currentAnalysis.status = "running"

\* analysis.js:346  if (currentAnalysis.status !== "completed")
NotCompleted == currentAnalysis.status # "completed"

\* GET /pipeline/results: a read of the slot.
ResultsResponse ==
  IF currentAnalysis.status = "none"
    THEN [code |-> 404, result |-> NoResult, completedAt |-> FALSE]
  ELSE IF NotCompleted
    THEN [code |-> 400, result |-> NoResult, completedAt |-> FALSE]
  ELSE [code |-> 200, result |-> currentAnalysis.result,
        completedAt |-> currentAnalysis.endTime]

Terminal == {"completed", "error", "stopped"}

\* The runs whose executePipeline call has not settled yet.
InFlight == {r \in RunIds : runs[r].pc \notin {"unused", "settled"}}

\* Everything but resp.
state == <<executor, currentAnalysis, currentPythonProcess, runs, procs, timers, nextRun,
           sseConnections, conns, closeTimers, host, call>>

-----------------------------------------------------------------------------
\* C1. Single-flight: a start() issued while the status is Running answers 409
\* and changes nothing; a start() that directly follows an accepted start()
\* is such a call, so of two back-to-back calls one runs and one conflicts.
C1_SingleFlight ==
  [][ (/\ resp'.op = "start"
       /\ \/ currentAnalysis.status = "running"
          \/ (resp.op = "start" /\ resp.code = 200))
      => (resp'.code = 409 /\ UNCHANGED state) ]_vars

C1_Witness ==
  /\ resp = Resp("start", 409)
  /\ currentAnalysis.status = "running"
  /\ InFlight = {currentAnalysis.run}

\* C2. At most one pipeline run is executing in every reachable state.
C2_AtMostOneRunExecuting ==
  /\ Cardinality(InFlight) <= 1
  /\ Cardinality({r \in RunIds : procs[r].state = "alive"}) <= 1

\* C3. The status moves only along Idle->Running, Running->Completed/Failed/
\* Stopped, terminal->Idle by clear and terminal->Running by start; a terminal
\* slot keeps its status, error and result until clear() or a new start().
C3_StatusTransitions ==
  [][ /\ currentAnalysis'.status # currentAnalysis.status =>
           \/ /\ currentAnalysis.status \in Terminal \cup {"none"}
              /\ currentAnalysis'.status = "running"
              /\ resp'.op = "start"
           \/ /\ currentAnalysis.status = "running"
              /\ currentAnalysis'.status \in {"completed", "error"}
           \/ /\ currentAnalysis.status = "running"
              /\ currentAnalysis'.status = "stopped"
              /\ resp'.op = "stop"
           \/ /\ currentAnalysis.status \in Terminal
              /\ currentAnalysis'.status = "none"
              /\ resp'.op = "clear"
      /\ (currentAnalysis.status \in Terminal /\ resp'.op \notin {"clear", "start"}) =>
           /\ currentAnalysis'.status = currentAnalysis.status
           /\ currentAnalysis'.error = currentAnalysis.error
           /\ currentAnalysis'.result = currentAnalysis.result ]_vars

\* The inputs the stages of the table require, as parameters of start().
RequiredParams ==
  UNION {{ParamOf(Pipeline[i].requiredFiles[j]) : j \in 1..Len(Pipeline[i].requiredFiles)} :
           i \in 1..Len(Pipeline)} \ {"qualityConfig"}

NumericParams == {"minLength", "identity", "copyNumber"}

\* A required input is missing, or a numeric parameter is no integer in range.
InvalidForStages(body) ==
  \/ \E k \in RequiredParams : body[k] = Undefined
  \/ \E k \in NumericParams \cap RequiredParams : body[k].t # "number" \/ body[k].v < 0

\* C4. Fail-fast validation: a start() whose params lack a required input of
\* some stage, or carry a bad number, answers with a validation error, never
\* enters Running, leaves the slot unchanged and launches nothing.
C4_FailFastValidation ==
  [][ \A body \in Bodies :
        (PipelineStart(body) /\ currentAnalysis.status # "running"
           /\ InvalidForStages(body))
        => (resp'.code = 400 /\ UNCHANGED state) ]_vars

\* C5. The documented full parameter set is accepted: the request passes
\* validation, the slot enters Running, and every supplied value is handed to
\* the stage loop.
C5_DocumentedParamsAccepted ==
  [][ \A body \in {BodyReadme, BodyReadmeQuality} :
        (PipelineStart(body) /\ currentAnalysis.status # "running")
        => /\ resp'.code = 200
           /\ currentAnalysis'.status = "running"
           /\ runs'[nextRun].params = body ]_vars

\* C6. stop() outside Running is a rejection: it answers 400, sends no signal,
\* publishes no event and changes nothing; a stop() that directly follows
\* another stop() is such a call.
C6_StopOnlyWhenRunning ==
  [][ (/\ resp'.op = "stop"
       /\ \/ currentAnalysis.status # "running"
          \/ resp.op = "stop")
      => /\ resp'.code = 400
         /\ resp'.signals = {}
         /\ resp'.events = <<>>
         /\ UNCHANGED state ]_vars

C6_Witness ==
  /\ resp = Resp("stop", 400)
  /\ currentAnalysis.status = "stopped"

\* C7. An accepted stop() leaves the slot Stopped, with endTime and the
\* stopped-by-user message, in the same step: status() right after it reports
\* Stopped whether or not the stage process has exited.
C7_StopIsImmediate ==
  (resp.op = "stop" /\ resp.code = 200) =>
    /\ currentAnalysis.status = "stopped"
    /\ currentAnalysis.endTime
    /\ currentAnalysis.error = StoppedByUser
    /\ StatusResponse.code = 200
    /\ StatusResponse.status = "stopped"
    /\ StatusResponse.error = StoppedByUser

C7_Witness ==
  /\ resp.op = "stop" /\ resp.code = 200
  /\ procs[currentAnalysis.run].state = "alive"
  /\ StatusResponse.status = "stopped"

\* C8. The orchestrator holds the handle of the in-flight process of the
\* running analysis as long as that process lives, and an accepted stop()
\* delivers SIGTERM to it.
C8_HandleHeldAndSignalled ==
  \A r \in RunIds :
    (currentAnalysis.run = r /\ procs[r].state = "alive") =>
      /\ currentAnalysis.status = "running" => currentPythonProcess = r
      /\ (resp.op = "stop" /\ resp.code = 200) => <<r, "SIGTERM">> \in resp.signals

\* C9. Two-phase termination: an accepted stop() with a process in flight
\* arms the force-kill timer, and when the timer fires while that process is
\* still alive the process gets SIGKILL; the status is Stopped.
C9_ForcedTermination ==
  [][ /\ (/\ resp'.op = "stop" /\ resp'.code = 200
           /\ procs[currentAnalysis.run].state = "alive")
          => /\ [kind |-> "forceKill", by |-> currentAnalysis.run] \in timers'
             /\ currentAnalysis'.status = "stopped"
      /\ \A t \in timers \ timers' :
           (t.kind = "forceKill" /\ procs[t.by].state = "alive")
           => procs'[t.by].kill ]_vars

\* C10. Abort-on-failure: when the process of stage K of a run exits non-zero
\* or cannot be spawned, the run starts no further stage, its status becomes
\* Failed and the recorded error carries the stderr captured from stage K.
C10_AbortOnFailure ==
  [][ \A r \in RunIds :
        /\ (ProcessError(r) \/ ProcessClose(r, [code |-> 1, signal |-> "none"]))
           => /\ procs'[r].state \in {"exited", "failed"}
              /\ StatusResponse'.status = "error"
              /\ currentAnalysis'.run = r
              /\ currentAnalysis'.error.kind \in {"exit", "spawn"}
              /\ currentAnalysis'.error.run = r
              /\ currentAnalysis'.error.stage = procs[r].stage
              /\ currentAnalysis'.error.stderr = procs[r].errorOutput
        /\ runs[r].pc = "settled" => (runs'[r] = runs[r] /\ procs'[r] = procs[r]) ]_vars

\* A stage process of run r fails: it cannot be spawned or exits with code 1.
StageFails(r) == ProcessError(r) \/ ProcessClose(r, [code |-> 1, signal |-> "none"])

\* s is a prefix of t.
IsPrefix(s, t) == Len(s) <= Len(t) /\ \A j \in 1..Len(s) : s[j] = t[j]

\* C11. The list of stage outcomes is append-only with one entry per stage
\* attempted: while a run drives its stages the list only grows, and a run
\* that fails at stage K leaves exactly K entries, the first K-1 completed
\* and the K-th failed.
C11_OneOutcomePerStageAttempted ==
  [][ \A r \in RunIds :
        /\ (runs[r].pc = "process" /\ runs'[r].pc = "process")
             => IsPrefix(runs[r].stepResults, runs'[r].stepResults)
        /\ (executor = "docker" /\ StageFails(r))
             => /\ Len(resp'.stepResults) = procs[r].stage
                /\ \A j \in 1..(procs[r].stage - 1) :
                      resp'.stepResults[j].status = "completed"
                /\ resp'.stepResults[procs[r].stage].status = "failed" ]_vars

\* The outcomes recorded for run r are those of the stages before the one in
\* flight, named in table order.
StageOrder(r) ==
  runs[r].pc = "process" /\ executor = "docker" =>
    /\ Len(runs[r].stepResults) = procs[r].stage - 1
    /\ \A j \in 1..Len(runs[r].stepResults) :
          runs[r].stepResults[j] = [stepName |-> standardPipeline[j].name,
                                    status |-> "completed"]

C13_CompletedOnlyAfterAllStages ==
  currentAnalysis.status = "completed" =>
    /\ runs[currentAnalysis.run].outcome = "resolved"
    /\ currentAnalysis.result = [run |-> currentAnalysis.run]

\* C14. results() answers 200 with the stored result and completedAt =
\* endTime exactly when the status is Completed; with no analysis it answers
\* 404 and in Running, Failed or Stopped 400, both without a result.
C14_ResultsOnlyWhenCompleted ==
  /\ currentAnalysis.status = "completed" =>
        /\ ResultsResponse.code = 200
        /\ ResultsResponse.result = currentAnalysis.result
        /\ ResultsResponse.result # NoResult
        /\ ResultsResponse.completedAt = currentAnalysis.endTime
        /\ ResultsResponse.completedAt
  /\ currentAnalysis.status = "none" =>
        ResultsResponse.code = 404 /\ ResultsResponse.result = NoResult
  /\ currentAnalysis.status \in {"running", "error", "stopped"} =>
        ResultsResponse.code = 400 /\ ResultsResponse.result = NoResult

C14_Witness ==
  /\ currentAnalysis.status = "completed"
  /\ ResultsResponse.code = 200
  /\ ResultsResponse.result = [run |-> currentAnalysis.run]

\* C15. clear() outside Running ends every connection registered to the
\* analysis and releases the slot, after which a valid start() is accepted;
\* without an analysis clear() succeeds and changes nothing.
C15_ClearReleasesSlot ==
  [][ /\ (Clear /\ currentAnalysis.status # "running")
          => /\ resp'.code = 200
             /\ currentAnalysis' = NoAnalysis
             /\ sseConnections' = {}
             /\ \A c \in sseConnections : conns'[c] = "ended"
             /\ \A c \in ConnIds \ sseConnections : conns'[c] = conns[c]
             /\ currentAnalysis.status = "none" => UNCHANGED state
      /\ (resp.op = "clear" /\ PipelineStart(BodyThreeFiles))
          => /\ resp'.code = 200
             /\ currentAnalysis'.status = "running" ]_vars

C15_Witness ==
  /\ resp.op = "clear"
  /\ runs[1].outcome = "resolved"
  /\ closeTimers = 1
  /\ timers = {[kind |-> "lateClose", by |-> 1]}
  /\ conns[1] = "ended"
  /\ currentAnalysis = NoAnalysis

\* C16. clear() is refused while the status is Running: the slot is released
\* only from a terminal status.
C16_ClearOnlyWhenNotRunning ==
  [][ /\ (Clear /\ currentAnalysis.status = "running")
          => currentAnalysis' = currentAnalysis
      /\ (currentAnalysis.status # "none" /\ currentAnalysis'.status = "none")
          => currentAnalysis.status \in Terminal ]_vars

\* C17. A connection opened on a Completed analysis is written the status
\* backfill and then the complete event with the stored result, nothing else,
\* and the timer armed for it ends the stream.
C17_LateSubscriberCompleted ==
  [][ /\ \A c \in ConnIds :
           (PipelineProgress(c) /\ currentAnalysis.status = "completed")
           => /\ resp'.code = 200
              /\ resp'.delivered = {c}
              /\ resp'.events =
                   <<[Ev("start") EXCEPT !.status = "completed"],
                     [Ev("complete") EXCEPT !.result = currentAnalysis.result]>>
              /\ [kind |-> "lateClose", by |-> c] \in timers'
      /\ \A t \in timers :
           LateCloseTimer(t) => conns'[t.by] \notin {"open", "broken"} ]_vars

C17_Witness ==
  /\ resp.op = "progress" /\ resp.code = 200
  /\ currentAnalysis.status = "completed"
  /\ Len(resp.events) = 2
  /\ resp.events[2].type = "complete"
  /\ resp.events[2].result = [run |-> currentAnalysis.run]
  /\ resp.delivered = {1}
  /\ conns[1] = "open"

\* C18. A connection opened on a Failed or Stopped analysis is written the
\* backfill and the error event with the run's error message, and a timer
\* that ends the stream is armed for it.
C18_LateSubscriberFailedOrStopped ==
  [][ \A c \in ConnIds :
        (PipelineProgress(c) /\ currentAnalysis.status \in {"error", "stopped"})
        => /\ resp'.code = 200
           /\ resp'.delivered = {c}
           /\ resp'.events =
                <<[Ev("start") EXCEPT !.status = currentAnalysis.status],
                  [Ev("error") EXCEPT !.error = currentAnalysis.error]>>
           /\ [kind |-> "lateClose", by |-> c] \in timers' ]_vars

C20_DeliveryFailureIsolated ==
  [][ (resp'.events # <<>> /\ resp'.op # "progress" /\ currentAnalysis.status # "none")
      => /\ \A c \in sseConnections :
              /\ conns[c] = "broken" => c \notin sseConnections' /\ c \notin resp'.delivered
              /\ conns[c] = "open" => c \in resp'.delivered /\ c \in sseConnections'
         /\ resp'.op = "stop" => resp'.code = 200 /\ currentAnalysis'.status = "stopped"
         /\ \A r \in RunIds :
              /\ ProcessClose(r, [code |-> 0, signal |-> "none"])
                   => runs'[r].pc = AfterLastStage
              /\ (ProcessClose(r, [code |-> 1, signal |-> "none"]) /\ currentAnalysis.run = r)
                   => runs'[r].pc = "settled" /\ currentAnalysis'.status = "error" ]_vars

C20_Witness ==
  /\ resp.op = "callback"
  /\ resp.events # <<>>
  /\ resp.delivered = {2}
  /\ conns[1] = "broken"
  /\ sseConnections = {2}
  /\ currentAnalysis.status = "running"

\* A run-terminating event: complete, or an error that carries a message
\* (a forwarded stderr chunk carries none).
TerminalEvent(e) == e.type = "complete" \/ (e.type = "error" /\ e.error # NoError)

\* The last callback published a run-terminating event.
PublishedTerminal ==
  /\ resp.op # "progress"
  /\ \E j \in 1..Len(resp.events) : TerminalEvent(resp.events[j])

\* C21. The callback that publishes a terminal event to registered
\* connections ends none of them and arms a close timer, and every connection
\* the terminal event was written to is closed later on.
C21_GraceThenClosed ==
  /\ [][ (PublishedTerminal' /\ resp'.delivered # {})
         => /\ closeTimers' = closeTimers + 1
            /\ \A c \in resp'.delivered : conns'[c] = "open" ]_vars
  /\ \A c \in 1..MaxConns :
       [](PublishedTerminal /\ c \in resp.delivered => <>(conns[c] # "open"))

\* The slot classifies run r as ended.
Classified(r) == currentAnalysis.run = r /\ currentAnalysis.status \in Terminal

\* A Completed slot carries a result, a Failed or Stopped one a message.
WithResultOrMessage ==
  /\ currentAnalysis.status = "completed" => currentAnalysis.result # NoResult
  /\ currentAnalysis.status \in {"error", "stopped"} => currentAnalysis.error # NoError

\* C22. Definitive outcome: every run that enters Running is classified later
\* on, as Completed with a result or as Failed/Stopped with a message, and the
\* classification of a run, once made, is the only one it gets.
C22_DefinitiveOutcome ==
  /\ \A r \in RunIds :
       [](currentAnalysis = RunningAnalysis(r) => <>Classified(r))
  /\ []WithResultOrMessage
  /\ [][ \A r \in RunIds :
           (Classified(r) /\ currentAnalysis'.run = r)
           => currentAnalysis'.status = currentAnalysis.status ]_vars

\* The environment check of run r reports that the environment is not ready.
EnvironmentNotReady(r) == runs[r].pc = "checkEnvironment" /\ AwaitResumed(r, FALSE)

\* C23. A start() against an environment that is not ready never enters
\* Running and spawns no stage process: when the environment check of a run
\* fails, the slot has not been put into Running for that run, and the run
\* has no process before or after.
C23_EnvironmentErrorIsValidationError ==
  [][ \A r \in RunIds :
        EnvironmentNotReady(r)
        => /\ currentAnalysis # RunningAnalysis(r)
           /\ procs[r].state = "none" /\ procs'[r].state = "none"
           /\ runs'[r].pc = "settled" ]_vars

\* C24. The process handle is set if and only if the status is Running.
C24_HandleIffRunning ==
  currentPythonProcess # NoProcess <=> currentAnalysis.status = "running"

\* The listings of a category in the results.
Categories ==
  [rename |-> <<"rename", "files", "totalFiles">>,
   trim |-> <<"trim", "files", "totalFiles">>,
   pear |-> <<"pear", "files", "totalFiles">>,
   filter |-> <<"filter", "files", "totalFiles">>,
   filter_del |-> <<"filter", "deletedFiles", "deletedCount">>]

\* C25. Collation tolerates missing directories: on every state of the
\* outputs directory the call returns the four categories without throwing,
\* the listing of an absent directory is empty with count 0, every count is
\* the length of its listing, and when every existing path is a directory the
\* listing of each is what the directory holds.
C25_CollationToleratesMissing ==
  [][ ParsePipelineResults =>
        /\ ~call'.threw
        /\ DOMAIN call'.results = {"rename", "trim", "pear", "filter"}
        /\ \A d \in DirNames :
             LET category == call'.results[Categories[d][1]]
                 files == category[Categories[d][2]]
                 count == category[Categories[d][3]]
             IN /\ count = Len(files)
                /\ host.outputs[d] = Absent => files = <<>> /\ count = 0
                /\ (\A e \in DirNames : host.outputs[e].kind # "file")
                     => (host.outputs[d].kind = "dir" => files = host.outputs[d].files)
        /\ Cardinality(call'.results.trim.species) <= call'.results.trim.totalFiles ]_vars

C25_Witness ==
  /\ call.fn = "_parsePipelineResults"
  /\ ~call.threw
  /\ host.outputs["rename"] = Absent /\ host.outputs["pear"] = Absent
  /\ host.outputs["filter"] = Absent
  /\ call.results.rename.totalFiles = 0
  /\ host.outputs["trim"].kind = "dir"
  /\ call.results.trim.totalFiles = 2
  /\ Cardinality(call.results.trim.species) = 1
  /\ call.results.filter.deletedCount = 1

\* The commands of the three checks, in order.
CheckCommands == <<"docker --version", "docker info", "docker images">>

\* C26. checkEnvironment() runs the checks installed -> live -> image in
\* that order and stops at the first that fails: the commands executed are
\* those of the checks up to the first failing one (the image check adding
\* its pull), each flag of the record tells how its check went on the host,
\* imageAvailable => dockerRunning => dockerInstalled, success holds iff all
\* three are true, and the one message names the first failure.
C26_EnvironmentCheckShortCircuits ==
  [][ CheckEnvironment =>
        LET c == call'.checks
            d == host.docker
            n == IF ~c.dockerInstalled THEN 1 ELSE IF ~c.dockerRunning THEN 2 ELSE 3
        IN /\ ~call'.threw
           /\ c.dockerInstalled = d.installed
           /\ c.dockerRunning = (d.installed /\ d.running)
           /\ c.imageAvailable = (c.dockerRunning /\ host'.docker.image)
           /\ c.imageAvailable => c.dockerRunning
           /\ c.dockerRunning => c.dockerInstalled
           /\ call'.success = (c.dockerInstalled /\ c.dockerRunning /\ c.imageAvailable)
           /\ SubSeq(call'.commands, 1, n) = SubSeq(CheckCommands, 1, n)
           /\ Len(call'.commands) > n
                => (n = 3 /\ call'.commands = CheckCommands \o <<"docker pull">>)
           /\ call'.message =
                (IF ~c.dockerInstalled THEN "Docker is not installed"
                 ELSE IF ~c.dockerRunning THEN "Docker daemon is not running"
                 ELSE IF ~c.imageAvailable THEN "Failed to get image mevp:latest"
                 ELSE "Docker environment is ready") ]_vars

C26_Witness ==
  /\ call.fn = "checkEnvironment"
  /\ ~call.success
  /\ call.checks = Checks(TRUE, FALSE, FALSE)
  /\ call.commands = <<"docker --version", "docker info">>
  /\ host.docker.image

\* C27. pullImageIfNeeded() pulls only when the image check does not find
\* the image, never throws, and is idempotent: a call on the host as a call
\* that returned true left it runs no pull and returns true again.
C27_PullIdempotent ==
  [][ PullImageIfNeeded =>
        /\ ~call'.threw
        /\ call'.commands[1] = "docker images"
        /\ "docker pull" \in {call'.commands[i] : i \in 1..Len(call'.commands)}
             <=> ~(host.docker.installed /\ host.docker.running /\ host.docker.image)
        /\ call'.result => host'.docker.image
        /\ ~call'.result => host' = host
        /\ (call.fn = "pullImageIfNeeded" /\ call.result /\ call.docker = host.docker)
             => (call'.result /\ call'.commands = <<"docker images">> /\ host' = host) ]_vars

C27_Witness ==
  /\ call.fn = "pullImageIfNeeded"
  /\ call.result
  /\ call.commands = <<"docker images">>
  /\ host.docker.image /\ ~host.docker.registry

\* The call of executePipeline of run r settles in this step.
Settles(r) == runs[r].pc \notin {"unused", "settled"} /\ runs'[r].pc = "settled"

\* C28. The settlement of a run updates that run only: when the slot holds
\* another run, the settlement leaves status, result, error and endTime as
\* they are and writes no terminal event to that run's connections.
C28_SettlementUpdatesOwnRun ==
  [][ \A r \in RunIds :
        (Settles(r) /\ currentAnalysis.run # r)
        => /\ currentAnalysis' = currentAnalysis
           /\ PublishedTerminal' => resp'.delivered = {} ]_vars

\* A stage process of run r is spawned in this step.
Spawns(r) ==
  /\ procs'[r].state = "alive"
  /\ procs[r].state # "alive" \/ procs'[r].stage # procs[r].stage

\* A callback of run r publishes a step_start in this step.
EmitsStepStart(r) ==
  /\ runs'[r] # runs[r]
  /\ \E j \in 1..Len(resp'.events) : resp'.events[j].type = "step_start"

\* C29. Once stop() has been accepted for a run (the slot is that run's, with
\* status Stopped), the run spawns no stage process and publishes no
\* step_start, whether or not a process handle was registered at the stop.
C29_NoStageAfterStop ==
  [][ \A r \in RunIds :
        (currentAnalysis.run = r /\ currentAnalysis.status = "stopped")
        => ~Spawns(r) /\ ~EmitsStepStart(r) ]_vars

\* C30. The SIGKILL of a force-kill timer is delivered only to the process
\* the stop() that armed it sent SIGTERM to: a process of the run that was
\* stopped, never the process of a run started since.
C30_ForceKillHitsStoppedProcess ==
  [][ \A t \in timers :
        ForceKillTimer(t)
        => \A r \in RunIds :
             <<r, "SIGKILL">> \in resp'.signals => (r = t.by /\ procs[r].term) ]_vars

\* C31. A close timer armed at the terminal event of a run ends only
\* connections of that run: when it fires while the slot holds a later run
\* that is Running, it ends no connection and removes none from the set.
C31_CloseTimerOwnRunOnly ==
  [][ (CloseTimer /\ currentAnalysis.status = "running")
      => (conns' = conns /\ sseConnections' = sseConnections) ]_vars

\* The stage outcomes run r has recorded after this step.
RecordedAfter(r) ==
  IF runs'[r].pc = "settled" THEN resp'.stepResults ELSE runs'[r].stepResults

\* C32. stderr is not fatal: a stderr chunk is forwarded as one error-typed
\* progress event that terminates nothing and leaves the slot and the run as
\* they are; a stage process that exits 0 after writing to stderr is recorded
\* completed and the run goes on as after any exit 0.
C32_StderrNonFatal ==
  [][ \A r \in RunIds :
        /\ Stderr(r)
             => /\ currentAnalysis' = currentAnalysis
                /\ runs' = runs
                /\ procs'[r].state = "alive" /\ procs'[r].stage = procs[r].stage
                /\ resp'.events = <<[Ev("error") EXCEPT !.stage = procs[r].stage]>>
                /\ ~PublishedTerminal'
        /\ (ProcessClose(r, [code |-> 0, signal |-> "none"]) /\ procs[r].errorOutput > 0)
             => IF executor = "script"
                  THEN runs'[r].pc = AfterLastStage /\ currentAnalysis' = currentAnalysis
                ELSE /\ RecordedAfter(r) = Append(runs[r].stepResults, StepResult(procs[r].stage))
                     /\ resp'.events[1] = [Ev("step_complete") EXCEPT !.stage = procs[r].stage]
                     /\ (/\ procs[r].stage < Len(Pipeline)
                         /\ ~ArgsThrow(Pipeline[procs[r].stage + 1], runs[r].params))
                          => /\ procs'[r].state = "alive"
                             /\ procs'[r].stage = procs[r].stage + 1
                             /\ currentAnalysis' = currentAnalysis ]_vars

C32_Witness ==
  \E r \in RunIds :
    /\ executor = "docker"
    /\ currentAnalysis = RunningAnalysis(r)
    /\ procs[r].state = "alive" /\ procs[r].stage = 2 /\ procs[r].errorOutput = 1
    /\ resp.events = <<[Ev("error") EXCEPT !.stage = 2]>>
    /\ Len(runs[r].stepResults) = 1

\* How far run r has come: 0 before its first stage, N while stage N runs,
\* past the last stage while the results are collated, then settled.
Rank(r) ==
  CASE runs[r].pc = "process" -> procs[r].stage
    [] runs[r].pc \in {"removeQualityConfig", "parsePipelineResults"} -> Len(Pipeline) + 1
    [] runs[r].pc = "settled" -> Len(Pipeline) + 2
    [] OTHER -> 0

\* The step is a callback of run r.
CallbackOf(r) == Stdout(r) \/ Stderr(r) \/ runs'[r] # runs[r]

Published == resp.events # <<>> /\ resp.op # "progress"

\* C34. A publishing callback writes its events to exactly the connections
\* that are in the set of the current analysis and open when it runs; a
\* connection that was closed by its client, ended, or deleted after a failed
\* write is in no set and is written nothing; a connection stays in the set,
\* and so is written every later publication, until one of these removes it
\* or the analysis, and its set with it, is cleared or replaced; with no
\* current analysis nothing is written and nothing changes.
C34_PublishToRegistered ==
  /\ [](\A c \in ConnIds : conns[c] \in {"closed", "ended"} => c \notin sseConnections)
  /\ [][ Published' =>
         /\ \A c \in ConnIds :
              /\ c \in resp'.delivered
                   <=> (currentAnalysis.status # "none" /\ c \in sseConnections /\ conns[c] = "open")
              /\ (c \in sseConnections /\ conns[c] = "open") => c \in sseConnections'
              /\ c \notin sseConnections => c \notin sseConnections'
         /\ currentAnalysis.status = "none"
              => sseConnections' = sseConnections /\ conns' = conns ]_vars
  /\ [][ \A c \in ConnIds :
           (c \in sseConnections /\ c \notin sseConnections')
             => \/ conns'[c] \in {"closed", "ended"}
                \/ conns[c] = "broken" /\ Published'
                \/ currentAnalysis'.status = "none"
                \/ currentAnalysis'.run # currentAnalysis.run ]_vars

C34_Witness ==
  /\ Published
  /\ currentAnalysis.status = "running"
  /\ resp.delivered = {1}
  /\ sseConnections = {1}
  /\ conns[2] = "closed"

\* C35. The container arguments of a stage are a function of the stage and
\* the params alone: they are the script reference followed by one argument
\* per entry of requiredFiles, in order; a stage without required files gets
\* the script reference only; building them changes nothing, and a second
\* call with the same stage and params builds the same list.
C35_ArgumentsPerRequiredInput ==
  /\ [](call.fn = "_executeStep" =>
          LET step == standardPipeline[host.step] IN
          /\ ~call.result.threw
          /\ Len(call.result.args) = 1 + Len(step.requiredFiles)
          /\ call.result.args[1] = Str(<<"/app/data/python_scripts/", step.script>>)
          /\ \A j \in 1..Len(step.requiredFiles) :
               call.result.args[j + 1] = Pushed(step.requiredFiles[j], host.params)[1])
  /\ [][ ExecuteStepArgs =>
           /\ UNCHANGED <<host, orchestrator>>
           /\ call.fn = "_executeStep" => call'.result = call.result ]_vars

\* The lines of a chunk by their boundaries: line i lies between the (i-1)th
\* and the ith line feed (the last one reaches the end of the chunk), without
\* the carriage return of a CRLF that ends it.
LineOf(chunk, i) ==
  LET lfs == {k \in 1..Len(chunk) : chunk[k] = "\n"}
      Before(k) == Cardinality({m \in lfs : m < k})
      from == IF i = 1 THEN 1 ELSE 1 + CHOOSE k \in lfs : Before(k) = i - 2
      to == IF i > Cardinality(lfs) THEN Len(chunk)
            ELSE (CHOOSE k \in lfs : Before(k) = i - 1) - 1
      crlf == i <= Cardinality(lfs) /\ to >= from /\ chunk[to] = "\r"
  IN SubSeq(chunk, from, IF crlf THEN to - 1 ELSE to)

\* A line is blank: it has only white space.
Blank(line) == \A k \in 1..Len(line) : line[k] \in WhiteSpace

\* The text of a line: the line from its first to its last character that is
\* no white space.
Text(line) ==
  LET ends == CHOOSE ab \in (1..Len(line)) \X (1..Len(line)) :
                /\ ab[1] <= ab[2]
                /\ line[ab[1]] \notin WhiteSpace /\ line[ab[2]] \notin WhiteSpace
                /\ Blank(SubSeq(line, 1, ab[1] - 1))
                /\ Blank(SubSeq(line, ab[2] + 1, Len(line)))
  IN SubSeq(line, ends[1], ends[2])

\* C36. The progress events of a stdout chunk are, in order, one event per
\* line of the chunk that is not blank, lines being separated by LF or CRLF,
\* and the message of an event is the text of its line; blank lines give no
\* event.
C36_LineSplitting ==
  call.fn = "onStdout" =>
    LET chunk == host.chunk
        n == 1 + Cardinality({k \in 1..Len(chunk) : chunk[k] = "\n"})
        kept == {i \in 1..n : ~Blank(LineOf(chunk, i))}
    IN /\ Len(call.events) = Cardinality(kept)
       /\ \A j \in 1..Len(call.events) :
            \E i \in kept :
              /\ Cardinality({m \in kept : m < i}) = j - 1
              /\ call.events[j] = [type |-> "progress", message |-> Text(LineOf(chunk, i))]

C36_Witness ==
  /\ call.fn = "onStdout"
  /\ host.chunk = <<"a", "\r", "\n", " ">>
  /\ call.events = <<[type |-> "progress", message |-> <<"a">>]>>

\* C37. The terminal fields of the slot agree with its status: it carries a
\* result exactly when it is completed, an error exactly when it is failed or
\* stopped, and an end time exactly when it is terminal; GET /pipeline/status
\* reports these fields as they are.
C37_TerminalFieldsAgree ==
  currentAnalysis.status # "none" =>
    /\ (currentAnalysis.result # NoResult) <=> (currentAnalysis.status = "completed")
    /\ (currentAnalysis.error # NoError) <=> (currentAnalysis.status \in {"error", "stopped"})
    /\ currentAnalysis.endTime <=> (currentAnalysis.status \in Terminal)
    /\ StatusResponse.error = currentAnalysis.error
    /\ StatusResponse.result = currentAnalysis.result

\* C38. The 1 s timer of a connection opened on a completed or failed
\* analysis runs without error whatever happened in between, a clear() or a
\* new start() included, and leaves the stream of its connection ended.
C38_LateCloseTimerSafe ==
  [][ \A t \in timers :
        LateCloseTimer(t) => /\ resp'.op = "lateClose"
                             /\ conns'[t.by] \in {"ended", "closed"} ]_vars

\* C39. A callback that writes a run-terminating event to a connection
\* writes it exactly one such event, and the callback that follows writes that
\* connection no progress or stage-start event.
C39_OneTerminalEvent ==
  [][ \A c \in ConnIds :
        /\ (c \in resp'.delivered /\ PublishedTerminal')
             => Cardinality({j \in 1..Len(resp'.events) : TerminalEvent(resp'.events[j])}) = 1
        /\ (c \in resp.delivered /\ PublishedTerminal /\ c \in resp'.delivered
              /\ resp'.op # "progress")
             => \A j \in 1..Len(resp'.events) :
                  resp'.events[j].type \notin {"progress", "step_start"} ]_vars

====
